---- MODULE Spec2Model ----
(***************************************************************************)
(* Model of the embroidery categorizer's batch pipeline:                   *)
(*   interfaces/cli.py        categorize (interrupt handling, exit code)   *)
(*   application/use_cases.py CategorizeFilesUseCase.execute               *)
(*   application/services.py  CategorizationService                        *)
(*   application/strategies.py CategorizationContext                       *)
(*   infrastructure/openai_strategy.py OpenAICategorizationStrategy        *)
(* One batch run is one behaviour.  Every call that leaves the process     *)
(* (availability probe, directory scan, render, classification request,    *)
(* copy, cleanup) is one step; its result is chosen by the environment.    *)
(***************************************************************************)
EXTENDS Integers, Sequences, FiniteSets, TLC

(* ------------------------------ bounds -------------------------------- *)
\* largest number of design files the directory scan returns
MaxFiles == 3

\* longest stitch list explored by the rasterizer's specification
MaxStitches == 3

\* largest number of files a directory of the enumeration holds
MaxEntries == 3

\* longest list of recorded errors a summary is made of
MaxErrors == 6

\* longest raw classifier text explored
MaxLen == 3

(* ------------------------- program constants -------------------------- *)
\* OpenAICategorizationStrategy.__init__(max_retries = 3)
max_retries == 3

\* file stems found by the scan; two files may carry the same stem
Names == {"a", "b"}

\* values of --start-after (click type=int: any integer), <<>> is None
Offsets == -1 .. (MaxFiles + 1)
StartAfterValues == {<<>>} \cup {<<k>> : k \in Offsets}

\* what one classification request can come to: an exception of the request
\* ("error"), a text that is empty after cleanup ("empty", ValueError raised
\* by Category.__post_init__), or a text that cleans to an identifier
CategoryTexts == {"flowers", "dogs"}
AttemptOutcomes == {"error", "empty"} \cup CategoryTexts

\* what convert_pes_to_jpg can come to: image written (True), no stitches or
\* no coordinates (False), ConversionError raised
RenderOutcomes == {"ok", "no_geometry", "raise"}

\* what copy_file_to_category_folder can come to
PlaceOutcomes == {"ok", "fail", "fail_jpg"}

\* what the request of an availability probe can come to
ProbeOutcomes == {"ok", "auth_error", "network_error", "timeout"}

UnavailableMsg == "Categorization service is not available"
ScanErrorMsg == "Error searching for .PES files"

VARIABLES
  pc,            \* position of the batch run
  files,         \* list returned by find_pes_files_in_directory (EmbroideryFile)
  scanned,       \* files the directory holds (what the scan will return)
  start_after,   \* the resume offset argument
  results,       \* the results dict of categorize_files_in_directory
  success,       \* results["success"] once execute has set it
  index,         \* loop variable of enumerate(embroidery_files, 1)
  temp_images,   \* CategorizationService.temp_images
  disk,          \* preview paths present in the scratch directory
  attempt,       \* loop variable of the retry loop
  waits,         \* time.sleep durations of the current classify call
  probes,        \* availability probes issued since the batch started
  attempted,     \* ordinals handed to _process_single_file, in order
  fstate,        \* per-file position in _process_single_file
  skipped,       \* ordinals the loop skipped
  upfront,       \* answer of the batch's own availability check
  responses,     \* outcomes of the current classify call's requests
  classify_result, \* what strategy.categorize_image returned, <<>> before
  design,        \* the pattern pyembroidery.read last returned, and for which file
  img,           \* what the last convert_pes_to_jpg produced
  text,          \* raw text handed to Category.from_ai_response
  conf,          \* confidence handed with it, in hundredths
  built,         \* the Category it built, or ValueError
  rebuilt,       \* from_ai_response applied to the name of built
  identifier,    \* category name handed to LanguageMapper.get_folder_name
  lang,          \* language code handed with it
  folder,        \* what get_folder_name returned, <<>> before
  output,        \* files in the output directory, each with the ordinal of
                 \* the design file it was copied for
  probe,         \* request outcome and answer of the check command's probe
  checkenv,      \* what the check command finds: API key, missing modules,
                 \* outcome of the probe's request
  entries,       \* files under the input directory of an enumeration
  case_sensitive, \* whether the platform matches glob patterns by exact case
  pes_files,         \* what find_pes_files_in_directory returned, <<>> before
  shown,         \* error lines _display_results printed
  stats,         \* error lines of get_categorization_stats
  exitCode       \* process exit status, -1 while running

vars == <<pc, files, scanned, start_after, results, success, index, temp_images,
          disk, attempt, waits, probes, attempted, fstate, skipped,
          upfront, responses, classify_result, design, img, exitCode,
          text, conf, built, rebuilt, identifier, lang, folder,
          entries, case_sensitive, pes_files, shown, stats, output, probe,
          checkenv>>

\* the variables of the category and folder-name functions
textvars == <<text, conf, built, rebuilt, identifier, lang, folder>>

\* the variables of the enumeration, of the summary functions and of the
\* check command
toolvars == <<entries, case_sensitive, pes_files, shown, stats, probe, checkenv>>

(* ------------------------------ helpers ------------------------------- *)
\* set of the elements of a sequence
Range(s) == {s[i] : i \in 1 .. Len(s)}

\* create_temp_jpg_path: tempdir/embroidery_categorizer/<stem>.jpg
create_temp_jpg_path(name) == <<"tmp", name>>

\* an EmbroideryFile as built by the scan: no category, no jpg_path
NewFile(name) == [name |-> name, category |-> <<>>, jpg_path |-> <<>>]

\* the results dict as initialised at the top of the service method;
\* skipped_files is a key that is absent (<<>>) until the offset is recorded
InitialResults ==
  [total_files |-> 0, processed_files |-> 0, failed_files |-> 0,
   categories_found |-> {}, errors |-> <<>>, skipped_files |-> <<>>]

\* mutation: the result of the availability check is ignored
AvailabilityGateMut(avail) == TRUE

\* services.py: if not self.categorization_context.is_available(): raise
AvailabilityGate(avail) == avail

\* mutation: the skip test is off by one (index < start_after)
ShouldSkipMut(i, sa) == sa # <<>> /\ i < sa[1]

\* services.py: if start_after is not None and index <= start_after: continue
ShouldSkip(i, sa) == sa # <<>> /\ i <= sa[1]

\* services.py: results["skipped_files"] = start_after / 0
RecordedSkip(sa) == IF sa # <<>> THEN sa ELSE <<0>>

\* strategies.py: if not self._strategy.is_available(): raise RuntimeError
ContextGate(avail) == avail

\* mutation: only a known identifier is returned, any other text is retried
ReturnsCategoryMut(out) == out = "flowers"

\* openai_strategy.py: the try block of an attempt reaches a return (the text
\* cleans to a non-empty identifier); every other outcome lands in except
ReturnsCategory(out) == out \in CategoryTexts

\* classification requests issued so far by the classify call in progress
requests == Len(responses)

\* openai_strategy.py: for attempt in range(self.max_retries)
HasAttempt(a) == a < max_retries

\* mutation: the loop waits after its last attempt too
RetryAfterFailureMut(a) == TRUE

\* openai_strategy.py: if attempt < self.max_retries - 1 (wait and retry)
RetryAfterFailure(a) == a < max_retries - 1

\* mutation: the first wait is skipped (wait_time = attempt * 2)
wait_timeMut(a) == a * 2

\* openai_strategy.py: wait_time = (attempt + 1) * 2
wait_time(a) == (a + 1) * 2

\* return values of strategy.categorize_image: None or a Category
NoneResult == <<"None">>
CategoryResult(name) == <<"Category", name>>

\* openai_strategy.py 64-74: the image is checked before any request: a
\* missing image returns None, one that cannot be read Category("other")
ImageCheckResult(image) ==
  IF image = "missing" THEN NoneResult ELSE CategoryResult("other")

\* mutation: after the last failed attempt None is returned
GiveUpResultMut == NoneResult

\* openai_strategy.py 126-131: after the last failed attempt
\* Category("other") is returned
GiveUpResult == CategoryResult("other")

\* services.py 140-142: if not category: category = Category("other")
ServiceCategory(ret) == IF ret = NoneResult THEN "other" ELSE ret[2]

\* mutation: the comparison is not strict (failed_files <= total_files)
SuccessFlagMut(res) == res.failed_files <= res.total_files

\* use_cases.py: results["success"] = failed_files < total_files
SuccessFlag(res) == res.failed_files < res.total_files

\* mutation: cleanup unlinks nothing
DiskAfterCleanupMut(d, imgs) == d

\* services.py 185-191: cleanup_temporary_images unlinks every listed path
DiskAfterCleanup(d, imgs) == d \ Range(imgs)

(* ------------------ the stitch rasterizer (pure part) ----------------- *)
\* pyembroidery_converter.py 22: image_size = (800, 600)
image_size == <<800, 600>>

\* pyembroidery_converter.py 55: padding = 50
padding == 50

\* pyembroidery_converter.py 93: the rotating palette, "black" is the
\* initial stroke color (line 76)
colors == <<"black", "red", "blue", "green", "purple", "orange">>

\* the commands the replay loop tells apart; "END" stands for every other
\* pyembroidery command (it is treated like a stitch that draws nothing)
Commands == {"STITCH", "JUMP", "TRIM", "STOP", "COLOR_CHANGE", "END"}

\* coordinate pairs of the designs explored: among their subsets are a small
\* pattern (scale 1), a wide one (scaled down), a flat one (zero height) and
\* a single point
Points == {<<0, 0>>, <<1400, 0>>, <<10, 15>>}

\* a stitch is [x, y, command]; the loop also accepts [x, y] (a plain stitch)
\* and skips entries shorter than two
Stitches == {<<p[1], p[2], c>> : p \in Points, c \in Commands}
              \cup {<<0, 0>>, <<0>>}

\* smallest and largest member of a non-empty set of integers (min, max)
MinOf(S) == CHOOSE m \in S : \A n \in S : m <= n
MaxOf(S) == CHOOSE m \in S : \A n \in S : m >= n

\* pyembroidery_converter.py 44-45: coordinates of the stitches that have two
x_coords(st) == {st[k][1] : k \in {j \in 1 .. Len(st) : Len(st[j]) >= 2}}
y_coords(st) == {st[k][2] : k \in {j \in 1 .. Len(st) : Len(st[j]) >= 2}}

\* the smaller of two fractions <<numerator, denominator>>, denominators > 0
MinFrac(f, g) == IF g[1] * f[2] < f[1] * g[2] THEN g ELSE f

\* mutation: the scale is not capped at 1.0
ScaleOfMut(pw, ph) ==
  IF pw > 0 /\ ph > 0
    THEN MinFrac(<<image_size[1] - 2 * padding, pw>>,
                 <<image_size[2] - 2 * padding, ph>>)
    ELSE <<1, 1>>

\* pyembroidery_converter.py 60-65: scale = min(scale_x, scale_y, 1.0), and
\* 1.0 for a pattern of zero width or height; an exact fraction stands for
\* the float
ScaleOf(pw, ph) ==
  IF pw > 0 /\ ph > 0
    THEN MinFrac(MinFrac(<<image_size[1] - 2 * padding, pw>>,
                         <<image_size[2] - 2 * padding, ph>>), <<1, 1>>)
    ELSE <<1, 1>>

\* int(length * scale) for a non-negative length
Scaled(len, sc) == (len * sc[1]) \div sc[2]

\* mutation: the padding is not added to the transformed coordinate
adjustedMut(x, mn, sc) == Scaled(x - mn, sc)

\* pyembroidery_converter.py 86-87: int((x - min_x) * scale) + padding
adjusted(x, mn, sc) == Scaled(x - mn, sc) + padding

\* mutation: any command that reaches the end of the loop body draws
ShouldDrawMut(prev_point, command) == prev_point # <<>>

\* pyembroidery_converter.py 106: if prev_point and command == STITCH
ShouldDraw(prev_point, command) == prev_point # <<>> /\ command = "STITCH"

\* pyembroidery_converter.py 94: color_index = (i // 100) % len(colors),
\* i the 0-based position of the command in the stitch list
color_index(i) == (i \div 100) % Len(colors)

\* mutation: a trim or stop leaves the pen at its own point, like a jump
PrevAfterTrimMut(current) == current

\* pyembroidery_converter.py 101-103: a trim or stop clears prev_point
PrevAfterTrim(current) == <<>>

\* the pen before the first command (lines 75-76): no previous point, black;
\* lines collects what draw.line drew, changes the colors chosen so far
InitialPen == [prev |-> <<>>, color |-> "black", lines |-> <<>>, changes |-> <<>>]

\* pyembroidery_converter.py 78-109: one pass of the replay loop for the
\* k-th stitch (i = k - 1 in the code); prev holds the point and, for the
\* properties, the ordinal of the stitch it came from
ReplayStep(pen, st, k, mnx, mny, sc) ==
  IF Len(st[k]) < 2 THEN pen
  ELSE
    LET command == IF Len(st[k]) > 2 THEN st[k][3] ELSE "STITCH"
        current == <<<<adjusted(st[k][1], mnx, sc), adjusted(st[k][2], mny, sc)>>, k>>
    IN  IF command = "COLOR_CHANGE"
          THEN [pen EXCEPT !.color = colors[color_index(k - 1) + 1],
                           !.changes = Append(@, colors[color_index(k - 1) + 1]),
                           !.prev = current]
        ELSE IF command = "JUMP"
          THEN [pen EXCEPT !.prev = current]
        ELSE IF command \in {"TRIM", "STOP"}
          THEN [pen EXCEPT !.prev = PrevAfterTrim(current)]
        ELSE [pen EXCEPT
                !.lines = IF ShouldDraw(pen.prev, command)
                            THEN Append(@, [from |-> pen.prev[1], to |-> current[1],
                                            a |-> pen.prev[2], b |-> k,
                                            color |-> pen.color])
                            ELSE @,
                !.prev = current]

RECURSIVE Replay(_, _, _, _, _, _)
Replay(pen, st, k, mnx, mny, sc) ==
  IF k > Len(st) THEN pen
  ELSE Replay(ReplayStep(pen, st, k, mnx, mny, sc), st, k + 1, mnx, mny, sc)

\* the result of a conversion that returned False: nothing was written
NoImage == [ok |-> FALSE]

\* pyembroidery_converter.py 36-49: the two early returns are passed: there
\* are stitches, and some of them carry a coordinate pair
HasGeometry(st) == st # <<>> /\ x_coords(st) # {} /\ y_coords(st) # {}

\* pyembroidery_converter.py 51-118: the image drawn and saved for a stitch
\* list that has geometry
RenderImage(st) ==
    LET min_x == MinOf(x_coords(st))
        min_y == MinOf(y_coords(st))
        pattern_width == MaxOf(x_coords(st)) - min_x
        pattern_height == MaxOf(y_coords(st)) - min_y
        scale == ScaleOf(pattern_width, pattern_height)
        pen == Replay(InitialPen, st, 1, min_x, min_y, scale)
    IN  [ok |-> TRUE,
         scale |-> scale,
         width |-> Scaled(pattern_width, scale) + 2 * padding,
         height |-> Scaled(pattern_height, scale) + 2 * padding,
         lines |-> pen.lines,
         changes |-> pen.changes]

\* mutation: a stitch list without geometry yields an empty canvas
convert_pes_to_jpgMut(st) ==
  IF HasGeometry(st) THEN RenderImage(st)
  ELSE [ok |-> TRUE, scale |-> <<1, 1>>, width |-> 2 * padding,
        height |-> 2 * padding, lines |-> <<>>, changes |-> <<>>]

\* pyembroidery_converter.py 32-118: convert_pes_to_jpg on the stitch list
\* of a pattern that could be read: False without an image when there is no
\* stitch or no coordinate pair, else the image that is saved
convert_pes_to_jpg(st) == IF HasGeometry(st) THEN RenderImage(st) ELSE NoImage

\* stitch lists of at most n stitches
RECURSIVE SeqsUpTo(_, _)
SeqsUpTo(S, n) ==
  IF n = 0 THEN {<<>>}
  ELSE LET shorter == SeqsUpTo(S, n - 1)
       IN  shorter \cup {Append(q, x) : q \in {r \in shorter : Len(r) = n - 1}, x \in S}

\* the designs of the rasterizer's specification
Designs == SeqsUpTo(Stitches, MaxStitches)

\* a pattern as read for the file of ordinal f (0: outside a batch);
\* readable is false when pyembroidery.read raises or returns nothing
Design(f, readable, st) == [file |-> f, readable |-> readable, stitches |-> st]
NoDesign == Design(0, FALSE, <<>>)

\* the patterns the batch meets: every stitch list without a coordinate
\* pair, a list with geometry, a file that cannot be read
BatchPatterns ==
  {Design(0, TRUE, st) : st \in SeqsUpTo({s \in Stitches : Len(s) < 2}, MaxStitches)}
    \cup {Design(0, TRUE, <<(<<0, 0, "STITCH">>), (<<10, 15, "STITCH">>)>>),
          Design(0, FALSE, <<>>)}

\* pyembroidery_converter.py 32-122 seen from the caller: True, False, or
\* ConversionError
RenderOutcome(d) ==
  IF ~d.readable THEN "raise"
  ELSE IF convert_pes_to_jpg(d.stitches).ok THEN "ok" ELSE "no_geometry"

\* mutation: the returned False is ignored
ConversionSucceededMut(out) == out # "raise"

\* services.py 128: if not conversion_success: return False (an exception
\* leaves through the except of _process_single_file)
ConversionSucceeded(out) == out = "ok"

(* ------------- category names and folder names (pure part) ------------ *)
\* A text is a sequence of one-character strings.

\* str.strip() without argument removes these from both ends (the ASCII ones)
Whitespace == {" ", "\t", "\n", "\r"}

\* mutation: the underscore is removed with the punctuation
PunctuationMut == <<".", ",", "!", "?", ";", ":", "\"", "(", ")", "[", "]", "{", "}", "_">>

\* value_objects.py 77: for char in '.,!?;:"()[]{}'
Punctuation == <<".", ",", "!", "?", ";", ":", "\"", "(", ")", "[", "]", "{", "}">>

\* str.lower() on ASCII letters
UpperCase == <<"A", "B", "C", "D", "E", "F", "G", "H", "I", "J", "K", "L", "M", "N", "O", "P", "Q", "R", "S", "T", "U", "V", "W", "X", "Y", "Z">>
LowerCase == <<"a", "b", "c", "d", "e", "f", "g", "h", "i", "j", "k", "l", "m", "n", "o", "p", "q", "r", "s", "t", "u", "v", "w", "x", "y", "z">>
lower_char(c) ==
  IF \E i \in 1 .. Len(UpperCase) : UpperCase[i] = c
    THEN LowerCase[CHOOSE i \in 1 .. Len(UpperCase) : UpperCase[i] = c]
    ELSE c
lower(s) == [i \in 1 .. Len(s) |-> lower_char(s[i])]

\* str.strip(): drop whitespace at the left end, then at the right end
RECURSIVE lstrip(_)
lstrip(s) == IF s # <<>> /\ Head(s) \in Whitespace THEN lstrip(Tail(s)) ELSE s
RECURSIVE rstrip(_)
rstrip(s) ==
  IF s # <<>> /\ s[Len(s)] \in Whitespace THEN rstrip(SubSeq(s, 1, Len(s) - 1)) ELSE s
strip(s) == rstrip(lstrip(s))

\* str.replace(old, new) for a one-character old; new is a text (empty to
\* delete)
RECURSIVE replace(_, _, _)
replace(s, old, new) ==
  IF s = <<>> THEN <<>>
  ELSE (IF Head(s) = old THEN new ELSE <<Head(s)>>) \o replace(Tail(s), old, new)

\* mutation: only the first occurrence of a punctuation character is removed
RECURSIVE replace_first(_, _, _)
replace_first(s, old, new) ==
  IF s = <<>> THEN <<>>
  ELSE IF Head(s) = old THEN new \o Tail(s)
  ELSE <<Head(s)>> \o replace_first(Tail(s), old, new)
RECURSIVE RemoveFirstPunctuation(_, _)
RemoveFirstPunctuation(clean_name, k) ==
  IF k > Len(Punctuation) THEN clean_name
  ELSE RemoveFirstPunctuation(replace_first(clean_name, Punctuation[k], <<>>), k + 1)

\* value_objects.py 77-78: the loop over the punctuation characters, from
\* the k-th on
RECURSIVE RemovePunctuation(_, _)
RemovePunctuation(clean_name, k) ==
  IF k > Len(Punctuation) THEN clean_name
  ELSE RemovePunctuation(replace(clean_name, Punctuation[k], <<>>), k + 1)

\* what a constructor call gives: a Category, or ValueError raised
ValueError == [ok |-> FALSE]
NoCategory == [ok |-> FALSE, none |-> TRUE]

\* value_objects.py 59-67: Category(name, confidence), the confidence in
\* hundredths; __post_init__ validates, then normalizes the name
Category(name, confidence) ==
  IF name = <<>> \/ strip(name) = <<>> THEN ValueError
  ELSE IF ~(0 <= confidence /\ confidence <= 100) THEN ValueError
  ELSE [ok |-> TRUE, name |-> replace(lower(strip(name)), " ", <<"_">>),
        confidence |-> confidence]

\* mutation: see replace_first
from_ai_responseMut(ai_response, confidence) ==
  Category(RemoveFirstPunctuation(lower(strip(ai_response)), 1), confidence)

\* value_objects.py 69-80: Category.from_ai_response
from_ai_response(ai_response, confidence) ==
  Category(RemovePunctuation(lower(strip(ai_response)), 1), confidence)

\* language_mappings.py 13-50: each table as a list of (key, value) pairs
CATEGORY_MAPPINGS ==
  ("en" :> <<
     <<<<"t", "e", "d", "d", "y", "_", "b", "e", "a", "r", "s">>,
       <<"t", "e", "d", "d", "y", "_", "b", "e", "a", "r", "s">>>>,
     <<<<"a", "n", "g", "e", "l", "s">>,
       <<"a", "n", "g", "e", "l", "s">>>>,
     <<<<"n", "a", "m", "e", "s">>,
       <<"n", "a", "m", "e", "s">>>>,
     <<<<"c", "a", "r", "s">>,
       <<"c", "a", "r", "s">>>>,
     <<<<"f", "l", "o", "w", "e", "r", "s">>,
       <<"f", "l", "o", "w", "e", "r", "s">>>>,
     <<<<"a", "n", "i", "m", "a", "l", "s">>,
       <<"a", "n", "i", "m", "a", "l", "s">>>>,
     <<<<"h", "e", "a", "r", "t", "s">>,
       <<"h", "e", "a", "r", "t", "s">>>>,
     <<<<"s", "t", "a", "r", "s">>,
       <<"s", "t", "a", "r", "s">>>>,
     <<<<"b", "u", "t", "t", "e", "r", "f", "l", "i", "e", "s">>,
       <<"b", "u", "t", "t", "e", "r", "f", "l", "i", "e", "s">>>>,
     <<<<"b", "a", "b", "i", "e", "s">>,
       <<"b", "a", "b", "i", "e", "s">>>>,
     <<<<"c", "h", "r", "i", "s", "t", "m", "a", "s">>,
       <<"c", "h", "r", "i", "s", "t", "m", "a", "s">>>>,
     <<<<"e", "a", "s", "t", "e", "r">>,
       <<"e", "a", "s", "t", "e", "r">>>>,
     <<<<"s", "p", "o", "r", "t", "s">>,
       <<"s", "p", "o", "r", "t", "s">>>>,
     <<<<"f", "o", "o", "d">>,
       <<"f", "o", "o", "d">>>>,
     <<<<"n", "a", "t", "u", "r", "e">>,
       <<"n", "a", "t", "u", "r", "e">>>>,
     <<<<"o", "t", "h", "e", "r">>,
       <<"o", "t", "h", "e", "r">>>>>>)
  @@
  ("pt-BR" :> <<
     <<<<"t", "e", "d", "d", "y", "_", "b", "e", "a", "r", "s">>,
       <<"u", "r", "s", "i", "n", "h", "o", "s">>>>,
     <<<<"a", "n", "g", "e", "l", "s">>,
       <<"a", "n", "j", "o", "s">>>>,
     <<<<"n", "a", "m", "e", "s">>,
       <<"n", "o", "m", "e", "s">>>>,
     <<<<"c", "a", "r", "s">>,
       <<"c", "a", "r", "r", "i", "n", "h", "o", "s">>>>,
     <<<<"f", "l", "o", "w", "e", "r", "s">>,
       <<"f", "l", "o", "r", "e", "s">>>>,
     <<<<"a", "n", "i", "m", "a", "l", "s">>,
       <<"a", "n", "i", "m", "a", "i", "s">>>>,
     <<<<"h", "e", "a", "r", "t", "s">>,
       <<"c", "o", "r", "a", "c", "o", "e", "s">>>>,
     <<<<"s", "t", "a", "r", "s">>,
       <<"e", "s", "t", "r", "e", "l", "a", "s">>>>,
     <<<<"b", "u", "t", "t", "e", "r", "f", "l", "i", "e", "s">>,
       <<"b", "o", "r", "b", "o", "l", "e", "t", "a", "s">>>>,
     <<<<"b", "a", "b", "i", "e", "s">>,
       <<"b", "e", "b", "e", "s">>>>,
     <<<<"c", "h", "r", "i", "s", "t", "m", "a", "s">>,
       <<"n", "a", "t", "a", "l">>>>,
     <<<<"e", "a", "s", "t", "e", "r">>,
       <<"p", "a", "s", "c", "o", "a">>>>,
     <<<<"s", "p", "o", "r", "t", "s">>,
       <<"e", "s", "p", "o", "r", "t", "e", "s">>>>,
     <<<<"f", "o", "o", "d">>,
       <<"c", "o", "m", "i", "d", "a">>>>,
     <<<<"n", "a", "t", "u", "r", "e">>,
       <<"n", "a", "t", "u", "r", "e", "z", "a">>>>,
     <<<<"o", "t", "h", "e", "r">>,
       <<"o", "u", "t", "r", "o", "s">>>>>>)

\* dict.get(key, default) on a list of pairs
MappingGet(mapping, key, default) ==
  IF \E i \in 1 .. Len(mapping) : mapping[i][1] = key
    THEN mapping[CHOOSE i \in 1 .. Len(mapping) : mapping[i][1] = key][2]
    ELSE default

\* mutation: an unsupported language falls back to the Portuguese table
get_folder_nameMut(english_category, language) ==
  MappingGet(CATEGORY_MAPPINGS[IF language \in DOMAIN CATEGORY_MAPPINGS
                                 THEN language ELSE "pt-BR"],
             english_category, english_category)

\* language_mappings.py 52-69: LanguageMapper.get_folder_name
get_folder_name(english_category, language) ==
  MappingGet(CATEGORY_MAPPINGS[IF language \in DOMAIN CATEGORY_MAPPINGS
                                 THEN language ELSE "en"],
             english_category, english_category)

\* characters of the raw texts explored: a letter of each case, two kinds
\* of whitespace, a punctuation character, the underscore
Chars == {"a", "B", " ", "\t", ".", "_"}
Texts == SeqsUpTo(Chars, MaxLen)

\* confidences explored, in hundredths: the ends of the range and one
\* beyond each
Confidences == {-1, 0, 100, 101}

\* identifiers handed to get_folder_name: the keys of the table, a name
\* the table does not have, a Portuguese folder name
Identifiers ==
  {CATEGORY_MAPPINGS["en"][i][1] : i \in 1 .. Len(CATEGORY_MAPPINGS["en"])}
    \cup {<<"d", "o", "g", "s">>, <<"f", "l", "o", "r", "e", "s">>}

\* language codes handed to get_folder_name: the supported ones and others
Languages == {"en", "pt-BR", "fr", "pt"}

\* openai_strategy.py 150-158: get_supported_categories
get_supported_categories ==
  {"teddy_bears", "angels", "names", "cars", "flowers", "animals", "hearts",
   "stars", "butterflies", "babies", "christmas", "easter", "sports", "food",
   "nature", "other"}

\* mutation: the category of a placed file is not added
CategoriesAfterMut(found, file) == found

\* services.py 84-85: if file.category: categories_found.add(file.category.name)
CategoriesAfter(found, file) ==
  IF file.category # <<>> THEN found \cup {file.category[1]} ELSE found

(* ------------------- enumeration of the design files ----------------- *)
\* extensions of the files a directory holds, and their lower-case forms
Extensions == {"pes", "PES", "Pes", "jpg"}
ExtLower(e) == IF e \in {"pes", "PES", "Pes"} THEN "pes" ELSE e

\* directories below the input directory ("" is the input directory)
Dirs == {"", "sub"}

\* a file under the input directory
Entry(d, stem, e) == [dir |-> d, stem |-> stem, ext |-> e]
AllEntries == {Entry(d, n, e) : d \in Dirs, n \in Names, e \in Extensions}

\* two paths a platform that ignores case takes for one file
SameIgnoringCase(a, b) ==
  a.dir = b.dir /\ a.stem = b.stem /\ ExtLower(a.ext) = ExtLower(b.ext)

\* Path.rglob("*." + e): whether a file name matches the pattern; pathlib
\* compares by exact case on POSIX and ignoring case on Windows
Matches(entry, e, cs) ==
  IF cs THEN entry.ext = e ELSE ExtLower(entry.ext) = ExtLower(e)

\* the members of a set as a list, in the order the directory scan yields
RECURSIVE ListOf(_)
ListOf(S) ==
  IF S = {} THEN <<>>
  ELSE LET x == CHOOSE y \in S : TRUE IN <<x>> \o ListOf(S \ {x})

\* file_system_repository.py 36, 46: directory_path.path.rglob(pattern)
rglob(dir, e, cs) == ListOf({x \in dir : Matches(x, e, cs)})

\* file_system_repository.py 33-56: the "*.pes" pass, then the "*.PES" pass
find_pes_files_in_directory(dir, cs) ==
  rglob(dir, "pes", cs) \o rglob(dir, "PES", cs)

\* nothing printed
NoLines == [errors |-> <<>>, more |-> 0]

\* the first n members of a list (list[:n])
FirstOf(list, n) == SubSeq(list, 1, IF Len(list) < n THEN Len(list) ELSE n)

\* the error lines printed for a list of errors cut after n: the first n
\* and, when there are more, how many more
ErrorLines(errors, n) ==
  [errors |-> FirstOf(errors, n),
   more |-> IF Len(errors) > n THEN Len(errors) - n ELSE 0]

\* services.py 208-213: the error part of get_categorization_stats
get_categorization_stats(res) ==
  IF res.errors # <<>> THEN ErrorLines(res.errors, 5) ELSE NoLines

\* cli.py 268-273: the error part of _display_results
display_results(res) ==
  IF res.errors # <<>> /\ res.failed_files > 0
    THEN ErrorLines(res.errors, 3) ELSE NoLines

\* error messages of the summaries explored
Messages == {"x", "y"}

(* ------------------ availability probe and placement ------------------ *)
\* no probe has been issued
NoProbe == [request |-> "none", answer |-> FALSE]

\* cli.py 155-162: the modules the check command imports
Dependencies == {"pyembroidery", "PIL", "openai", "click", "loguru", "dotenv"}

\* what a run of the check command meets
CheckEnv(key, missing, req) == [key |-> key, missing |-> missing, request |-> req]
NoEnv == CheckEnv(FALSE, {}, "none")

\* mutation: a timeout is taken for an answer
is_availableMut(req) == req # "timeout"

\* openai_strategy.py 133-148: True when the request returned, False from
\* the except of any failure
is_available(req) == req = "ok"

\* language_mappings.py 52-69 for the batch's category names in the default
\* language: every key of the English table maps to itself and so does a
\* name the table does not have
FolderOf(category) == category

\* shutil.copy2 into the category folder: the destination path holds the
\* copy made for file i, whatever it held before
CopyInto(out, dir, name, kind, i) ==
  {e \in out : ~(e.folder = dir /\ e.name = name /\ e.kind = kind)}
    \cup {[folder |-> dir, name |-> name, kind |-> kind, from |-> i]}

\* file_system_repository.py 70-91: the design is copied first (76), then
\* the preview (82); an exception before the first copy leaves nothing
\* ("fail"), one raised by the second leaves the design ("fail_jpg")
OutputAfterCopy(out, file, i, outcome) ==
  LET dir == FolderOf(file.category[1])
      withPes == CopyInto(out, dir, file.name, "pes", i)
  IN  IF outcome = "fail" THEN out
      ELSE IF outcome = "fail_jpg" THEN withPes
      ELSE CopyInto(withPes, dir, file.name, "jpg", i)

\* mutation: a failure of the preview copy is not reported
CopySucceededMut(outcome) == outcome # "fail"

\* file_system_repository.py 87-91: True after both copies, False from the
\* except
CopySucceeded(outcome) == outcome = "ok"

(* ------------------------------- Init --------------------------------- *)
\* no Category has been built and no folder name asked for
TextIdle ==
  /\ text = <<>> /\ conf = 100 /\ built = NoCategory /\ rebuilt = NoCategory
  /\ identifier = <<>> /\ lang = "en" /\ folder = <<>>

\* nothing has been enumerated and no summary printed
ToolIdle ==
  /\ entries = {} /\ case_sensitive = TRUE /\ pes_files = <<>>
  /\ shown = NoLines /\ stats = NoLines
  /\ probe = NoProbe /\ checkenv = NoEnv

\* no batch is running and nothing has been converted
BatchIdle ==
  /\ scanned = <<>> /\ files = <<>> /\ start_after = <<>>
  /\ results = InitialResults /\ success = <<>> /\ index = 0
  /\ temp_images = <<>> /\ disk = {} /\ attempt = 0 /\ waits = <<>>
  /\ probes = 0 /\ attempted = <<>> /\ fstate = <<>> /\ skipped = {}
  /\ upfront = "none" /\ responses = <<>> /\ classify_result = <<>>
  /\ design = NoDesign /\ img = NoImage /\ exitCode = -1
  /\ output = {}

Init ==
  /\ pc = "check_available"
  /\ \E n \in 0 .. MaxFiles : scanned \in [1 .. n -> Names]
  \* a stem matters only by being equal to another or not, so the lists are
  \* taken up to renaming of the stems: the first one is "a"
  /\ Len(scanned) > 0 => scanned[1] = "a"
  /\ files = <<>>
  /\ start_after \in StartAfterValues
  /\ results = InitialResults
  /\ success = <<>>
  /\ index = 0
  /\ temp_images = <<>>
  /\ disk = {}
  /\ attempt = 0
  /\ waits = <<>>
  /\ probes = 0
  /\ attempted = <<>>
  /\ fstate = <<>>
  /\ skipped = {}
  /\ upfront = "none"
  /\ responses = <<>>
  /\ classify_result = <<>>
  /\ design = NoDesign
  /\ img = NoImage
  /\ exitCode = -1
  /\ TextIdle
  /\ ToolIdle
  /\ output = {}

(* ------------------- shared pieces of the handlers -------------------- *)
\* an entry of results["errors"]: str(e) of a batch-level exception
\* (services.py 105, no file) or "<file.name>: <e>" (services.py 92)
ErrorEntry(file, msg) == [file |-> file, msg |-> msg]

\* services.py 102-106: the outer except of categorize_files_in_directory:
\* clean up, append str(e), return the results
RaiseInBatch(msg) ==
  /\ disk' = DiskAfterCleanup(disk, temp_images)
  /\ temp_images' = <<>>
  /\ results' = [results EXCEPT !.errors = Append(@, ErrorEntry(<<>>, msg))]
  /\ pc' = "returned"

\* services.py 86-87 after _process_single_file returned False: count the
\* file as failed and go on with the loop.  Nothing is appended to errors:
\* the only per-file append (services.py 89-92) sits in an except Exception
\* around _process_single_file, which catches every Exception itself
\* (services.py 162-164) and so never lets one through.
FileFailed(state) ==
  /\ results' = [results EXCEPT !.failed_files = @ + 1]
  /\ fstate' = [fstate EXCEPT ![index] = state]
  /\ index' = index + 1
  /\ pc' = "loop"

\* services.py 140-144: file.assign_category(category), on to the copy
AssignCategory(name) ==
  /\ files' = [files EXCEPT ![index].category = <<name>>]
  /\ fstate' = [fstate EXCEPT ![index] = "Placing"]
  /\ pc' = "place"

\* services.py 138-144: strategy.categorize_image returned ret to the service
ClassifyReturns(ret) ==
  /\ classify_result' = ret
  /\ AssignCategory(ServiceCategory(ret))

(* ------------------------------ actions ------------------------------- *)
\* services.py 51-54: the batch's own availability check
IsAvailableCheck ==
  /\ pc = "check_available"
  /\ \E req \in ProbeOutcomes : LET avail == is_available(req) IN
       /\ probes' = probes + 1
       /\ upfront' = IF avail THEN "available" ELSE "unavailable"
       /\ IF AvailabilityGate(avail)
            THEN /\ pc' = "find"
                 /\ UNCHANGED <<disk, temp_images, results>>
            ELSE RaiseInBatch(UnavailableMsg)
  /\ UNCHANGED classify_result
  /\ UNCHANGED <<design, img>>
  /\ UNCHANGED output
  /\ UNCHANGED textvars
  /\ UNCHANGED toolvars
  /\ UNCHANGED <<files, scanned, start_after, success, index, attempt,
                 waits, attempted, fstate, skipped, responses, exitCode>>

\* services.py 56-69: the directory scan, the early return on an empty list,
\* the recording of the resume offset
FindPesFiles ==
  /\ pc = "find"
  /\ \E scanOk \in BOOLEAN :
       IF ~scanOk
         THEN /\ RaiseInBatch(ScanErrorMsg)
              /\ UNCHANGED <<files, fstate, index>>
         ELSE /\ files' = [i \in 1 .. Len(scanned) |-> NewFile(scanned[i])]
              /\ fstate' = [i \in 1 .. Len(scanned) |-> "Discovered"]
              /\ UNCHANGED <<disk, temp_images>>
              /\ IF Len(scanned) = 0
                   THEN /\ results' = [results EXCEPT !.total_files = 0]
                        /\ pc' = "returned"
                        /\ UNCHANGED index
                   ELSE /\ results' = [results EXCEPT
                                         !.total_files = Len(scanned),
                                         !.skipped_files = RecordedSkip(start_after)]
                        /\ index' = 1
                        /\ pc' = "loop"
  /\ UNCHANGED classify_result
  /\ UNCHANGED <<design, img>>
  /\ UNCHANGED output
  /\ UNCHANGED textvars
  /\ UNCHANGED toolvars
  /\ UNCHANGED <<scanned, start_after, success, attempt, waits, probes,
                 attempted, skipped, upfront, responses, exitCode>>

\* services.py 72-76: the loop skips a file at or below the resume offset
SkipFile ==
  /\ pc = "loop"
  /\ index <= Len(files)
  /\ ShouldSkip(index, start_after)
  /\ skipped' = skipped \cup {index}
  /\ fstate' = [fstate EXCEPT ![index] = "Skipped"]
  /\ index' = index + 1
  /\ UNCHANGED classify_result
  /\ UNCHANGED <<design, img>>
  /\ UNCHANGED output
  /\ UNCHANGED textvars
  /\ UNCHANGED toolvars
  /\ UNCHANGED <<pc, files, scanned, start_after, results, success, temp_images,
                 disk, attempt, waits, probes, attempted, upfront,
                 responses, exitCode>>

\* services.py 78-81, 114-117: _process_single_file starts: the preview path
\* is created and recorded in temp_images before the render
BeginFile ==
  /\ pc = "loop"
  /\ index <= Len(files)
  /\ ~ShouldSkip(index, start_after)
  /\ temp_images' = Append(temp_images, create_temp_jpg_path(files[index].name))
  /\ attempted' = Append(attempted, index)
  /\ fstate' = [fstate EXCEPT ![index] = "Rendering"]
  /\ pc' = "render"
  /\ UNCHANGED classify_result
  \* the pattern and image of the file before are locals of a call that has
  \* returned
  /\ design' = NoDesign /\ img' = NoImage
  /\ UNCHANGED output
  /\ UNCHANGED textvars
  /\ UNCHANGED toolvars
  /\ UNCHANGED <<files, scanned, start_after, results, success, index, disk,
                 attempt, waits, probes, skipped, upfront, responses,
                 exitCode>>

\* services.py 123-132: convert_pes_to_jpg; False or an exception fails the
\* file, True sets file.jpg_path
Render ==
  /\ pc = "render"
  /\ \E d \in BatchPatterns :
       LET out == RenderOutcome(d)
       IN  /\ out \in RenderOutcomes
           /\ design' = [d EXCEPT !.file = index]
           /\ img' = IF d.readable THEN convert_pes_to_jpg(d.stitches) ELSE NoImage
           \* img.save writes the preview exactly when an image was drawn
           /\ disk' = IF img'.ok
                         THEN disk \cup {create_temp_jpg_path(files[index].name)}
                         ELSE disk
           /\ IF ConversionSucceeded(out)
                THEN /\ files' = [files EXCEPT ![index].jpg_path =
                                    <<create_temp_jpg_path(files[index].name)>>]
                     /\ fstate' = [fstate EXCEPT ![index] = "Classifying"]
                     /\ pc' = "classify_probe"
                     /\ UNCHANGED <<results, index>>
                ELSE /\ FileFailed("RenderFailed")
                     /\ UNCHANGED files
  /\ UNCHANGED classify_result
  /\ UNCHANGED <<scanned, start_after, success, temp_images, attempt,
                 waits, probes, attempted, skipped, upfront, responses, exitCode>>
  /\ UNCHANGED output
  /\ UNCHANGED textvars
  /\ UNCHANGED toolvars

\* strategies.py 44-51 and openai_strategy.py 64-74: the context probes the
\* backend before every classification and raises when it is unavailable;
\* then the strategy reads the image: a missing image returns None and an
\* unreadable one Category("other"), both without a request
BeginClassify ==
  /\ pc = "classify_probe"
  /\ \E req \in ProbeOutcomes, image \in {"ok", "missing", "unreadable"} :
     LET avail == is_available(req) IN
       /\ probes' = probes + 1
       /\ attempt' = 0
       /\ waits' = <<>>
       /\ responses' = <<>>
       /\ IF ~ContextGate(avail)
            THEN /\ FileFailed("ClassifyFailed")
                 /\ UNCHANGED <<files, classify_result>>
            ELSE IF image # "ok"
                   THEN /\ ClassifyReturns(ImageCheckResult(image))
                        /\ UNCHANGED <<results, index>>
                   ELSE /\ pc' = "classify"
                        /\ UNCHANGED <<files, fstate, results, index,
                                       classify_result>>
  /\ UNCHANGED <<design, img>>
  /\ UNCHANGED output
  /\ UNCHANGED textvars
  /\ UNCHANGED toolvars
  /\ UNCHANGED <<scanned, start_after, success, temp_images, disk, attempted,
                 skipped, upfront, exitCode>>

\* openai_strategy.py 77-131: one pass of the retry loop: one request, then
\* return the category, or wait and retry, or give up with "other"
ClassifyAttempt ==
  /\ pc = "classify"
  /\ IF ~HasAttempt(attempt)
       THEN \* the loop ran out: None is returned, the service uses "other"
            /\ ClassifyReturns(NoneResult)
            /\ UNCHANGED <<attempt, waits, responses>>
       ELSE \E out \in AttemptOutcomes :
              /\ responses' = Append(responses, out)
              /\ IF ReturnsCategory(out)
                   THEN /\ ClassifyReturns(CategoryResult(out))
                        /\ UNCHANGED <<attempt, waits>>
                   ELSE IF RetryAfterFailure(attempt)
                          THEN /\ waits' = Append(waits, wait_time(attempt))
                               /\ attempt' = attempt + 1
                               /\ UNCHANGED <<pc, files, fstate, classify_result>>
                          ELSE /\ ClassifyReturns(GiveUpResult)
                               /\ UNCHANGED <<attempt, waits>>
  /\ UNCHANGED <<design, img>>
  /\ UNCHANGED output
  /\ UNCHANGED textvars
  /\ UNCHANGED toolvars
  /\ UNCHANGED <<scanned, start_after, results, success, index, temp_images, disk,
                 probes, attempted, skipped, upfront, exitCode>>

\* services.py 150-160 and 82-87: the copy into the category folder and the
\* accounting of its result
Place ==
  /\ pc = "place"
  /\ \E out \in PlaceOutcomes :
       /\ output' = OutputAfterCopy(output, files[index], index, out)
       /\ IF CopySucceeded(out)
         THEN /\ results' = [results EXCEPT
                               !.processed_files = @ + 1,
                               !.categories_found = CategoriesAfter(@, files[index])]
              /\ fstate' = [fstate EXCEPT ![index] = "Placed"]
              /\ index' = index + 1
              /\ pc' = "loop"
         ELSE FileFailed("PlaceFailed")
  \* the locals of the classify call that has returned are gone
  /\ attempt' = 0
  /\ waits' = <<>>
  /\ responses' = <<>>
  /\ classify_result' = <<>>
  /\ UNCHANGED <<design, img>>
  /\ UNCHANGED textvars
  /\ UNCHANGED toolvars
  /\ UNCHANGED <<files, scanned, start_after, success, temp_images, disk, probes,
                 attempted, skipped, upfront, exitCode>>

\* services.py 94-100: after the last file the previews are cleaned up and
\* the results returned
FinishLoop ==
  /\ pc = "loop"
  /\ index > Len(files)
  /\ disk' = DiskAfterCleanup(disk, temp_images)
  /\ temp_images' = <<>>
  /\ pc' = "returned"
  /\ UNCHANGED classify_result
  \* the locals of the last conversion are gone
  /\ design' = NoDesign /\ img' = NoImage
  /\ UNCHANGED output
  /\ UNCHANGED textvars
  /\ UNCHANGED toolvars
  /\ UNCHANGED <<files, scanned, start_after, results, success, index, attempt,
                 waits, probes, attempted, fstate, skipped, upfront,
                 responses, exitCode>>

\* use_cases.py 127-136 and cli.py 121-122: execute adds the success flag,
\* the command displays the results and ends normally
ExecuteReturn ==
  /\ pc = "returned"
  /\ success' = <<SuccessFlag(results)>>
  /\ exitCode' = 0
  /\ pc' = "done"
  /\ UNCHANGED classify_result
  /\ UNCHANGED <<design, img>>
  /\ UNCHANGED output
  /\ UNCHANGED textvars
  /\ UNCHANGED toolvars
  /\ UNCHANGED <<files, scanned, start_after, results, index, temp_images, disk,
                 attempt, waits, probes, attempted, fstate, skipped,
                 upfront, responses>>

\* cli.py 126-129: KeyboardInterrupt is no Exception, so no handler of the
\* service or the use case sees it; the command prints a note and exits 1
InBatch == {"check_available", "find", "loop", "render", "classify_probe",
            "classify", "place"}

Interrupt ==
  /\ pc \in InBatch
  /\ pc' = "interrupted"
  /\ exitCode' = 1
  /\ UNCHANGED classify_result
  /\ UNCHANGED <<design, img>>
  /\ UNCHANGED output
  /\ UNCHANGED textvars
  /\ UNCHANGED toolvars
  /\ UNCHANGED <<files, scanned, start_after, results, success, index, temp_images,
                 disk, attempt, waits, probes, attempted, fstate,
                 skipped, upfront, responses>>

Next ==
  \/ IsAvailableCheck
  \/ FindPesFiles
  \/ SkipFile
  \/ BeginFile
  \/ Render
  \/ BeginClassify
  \/ ClassifyAttempt
  \/ Place
  \/ FinishLoop
  \/ ExecuteReturn
  \/ Interrupt

Spec == Init /\ [][Next]_vars

(* --------------- the rasterizer on its own: one conversion ------------ *)
\* a converter outside any batch (cli.py convert): every stitch list of at
\* most MaxStitches stitches is converted once
InitRaster ==
  /\ pc = "convert"
  /\ design \in {Design(0, TRUE, st) : st \in Designs}
  /\ img = NoImage
  /\ scanned = <<>> /\ files = <<>> /\ start_after = <<>>
  /\ results = InitialResults /\ success = <<>> /\ index = 0
  /\ temp_images = <<>> /\ disk = {} /\ attempt = 0 /\ waits = <<>>
  /\ probes = 0 /\ attempted = <<>> /\ fstate = <<>> /\ skipped = {}
  /\ upfront = "none" /\ responses = <<>> /\ classify_result = <<>>
  /\ exitCode = -1
  /\ TextIdle
  /\ ToolIdle
  /\ output = {}

\* cli.py 219-225: converter.convert_pes_to_jpg(input_path, output_path),
\* exit status 1 when it returns False
Convert ==
  /\ pc = "convert"
  /\ img' = convert_pes_to_jpg(design.stitches)
  /\ exitCode' = IF img'.ok THEN 0 ELSE 1
  /\ pc' = "converted"
  /\ UNCHANGED <<files, scanned, start_after, results, success, index,
                 temp_images, disk, attempt, waits, probes, attempted, fstate,
                 skipped, upfront, responses, classify_result, design,
                 output>>
  /\ UNCHANGED textvars
  /\ UNCHANGED toolvars

NextRaster == Convert

SpecRaster == InitRaster /\ [][NextRaster]_vars


(* ------------- Category construction on its own: two calls ------------ *)
batchvars == <<files, scanned, start_after, results, success, index, temp_images,
               disk, attempt, waits, probes, attempted, fstate, skipped,
               upfront, responses, classify_result, design, img, exitCode,
               output>>

\* one raw text and one confidence, nothing built yet
InitCategory ==
  /\ pc = "normalize"
  /\ text \in Texts
  /\ conf \in Confidences
  /\ built = NoCategory /\ rebuilt = NoCategory
  /\ identifier = <<>> /\ lang = "en" /\ folder = <<>>
  /\ BatchIdle
  /\ ToolIdle

\* value_objects.py 69-80: Category.from_ai_response(text, conf)
FromAiResponse ==
  /\ pc = "normalize"
  /\ built' = from_ai_response(text, conf)
  /\ pc' = "normalized"
  /\ UNCHANGED <<text, conf, rebuilt, identifier, lang, folder>>
  /\ UNCHANGED batchvars
  /\ UNCHANGED toolvars

\* the same call on the name of the Category just built
FromAiResponseAgain ==
  /\ pc = "normalized"
  /\ built.ok
  /\ rebuilt' = from_ai_response(built.name, built.confidence)
  /\ pc' = "renormalized"
  /\ UNCHANGED <<text, conf, built, identifier, lang, folder>>
  /\ UNCHANGED batchvars
  /\ UNCHANGED toolvars

\* value_objects.py 56-67: the constructor itself, Category(text, conf)
Construct ==
  /\ pc = "normalize"
  /\ built' = Category(text, conf)
  /\ pc' = "constructed"
  /\ UNCHANGED <<text, conf, rebuilt, identifier, lang, folder>>
  /\ UNCHANGED batchvars
  /\ UNCHANGED toolvars

NextCategory == FromAiResponse \/ FromAiResponseAgain \/ Construct

SpecCategory == InitCategory /\ [][NextCategory]_vars

(* ------------- the folder name of a category: one lookup -------------- *)
\* one identifier and one language code, no folder name yet
InitFolder ==
  /\ pc = "map"
  /\ identifier \in Identifiers
  /\ lang \in Languages
  /\ folder = <<>>
  /\ text = <<>> /\ conf = 100 /\ built = NoCategory /\ rebuilt = NoCategory
  /\ BatchIdle
  /\ ToolIdle

\* language_mappings.py 52-69: LanguageMapper.get_folder_name(identifier, lang)
GetFolderName ==
  /\ pc = "map"
  /\ folder' = get_folder_name(identifier, lang)
  /\ pc' = "mapped"
  /\ UNCHANGED <<text, conf, built, rebuilt, identifier, lang>>
  /\ UNCHANGED batchvars
  /\ UNCHANGED toolvars

\* value_objects.py 69-80: the folder name handed to from_ai_response, with
\* the default confidence
NormalizeFolder ==
  /\ pc = "mapped"
  /\ built' = from_ai_response(folder, 100)
  /\ pc' = "folder_normalized"
  /\ UNCHANGED <<text, conf, rebuilt, identifier, lang, folder>>
  /\ UNCHANGED batchvars
  /\ UNCHANGED toolvars

NextFolder == GetFolderName \/ NormalizeFolder

SpecFolder == InitFolder /\ [][NextFolder]_vars

(* ----------------- the enumeration on its own: one scan --------------- *)
\* a directory of at most MaxEntries files; a platform that ignores case
\* cannot hold two files whose names differ by case only
InitScan ==
  /\ pc = "scan"
  /\ case_sensitive \in BOOLEAN
  /\ entries \in {S \in SUBSET AllEntries : Cardinality(S) <= MaxEntries}
  /\ case_sensitive
       \/ \A a \in entries : \A b \in entries : SameIgnoringCase(a, b) => a = b
  /\ pes_files = <<>>
  /\ shown = NoLines /\ stats = NoLines
  /\ probe = NoProbe /\ checkenv = NoEnv
  /\ BatchIdle
  /\ TextIdle

\* file_system_repository.py 21-56: find_pes_files_in_directory
Scan ==
  /\ pc = "scan"
  /\ pes_files' = find_pes_files_in_directory(entries, case_sensitive)
  /\ pc' = "scanned"
  /\ UNCHANGED <<entries, case_sensitive, shown, stats, probe, checkenv>>
  /\ UNCHANGED batchvars
  /\ UNCHANGED textvars

NextScan == Scan

SpecScan == InitScan /\ [][NextScan]_vars

(* ------------------ the final summary on its own ---------------------- *)
\* a results dict with up to MaxErrors recorded errors, as execute gets it
\* from categorize_files_in_directory
InitSummary ==
  /\ pc = "summary"
  /\ \E n \in 0 .. MaxErrors, failed \in 0 .. 1 :
       \E msgs \in [1 .. n -> Messages] :
          results = [InitialResults EXCEPT
                       !.errors = [i \in 1 .. n |-> [file |-> <<>>, msg |-> msgs[i]]],
                       !.failed_files = failed,
                       !.total_files = 1,
                       !.skipped_files = <<0>>]
  /\ shown = NoLines /\ stats = NoLines
  /\ probe = NoProbe /\ checkenv = NoEnv
  /\ entries = {} /\ case_sensitive = TRUE /\ pes_files = <<>>
  /\ scanned = <<>> /\ files = <<>> /\ start_after = <<>>
  /\ success = <<>> /\ index = 0
  /\ temp_images = <<>> /\ disk = {} /\ attempt = 0 /\ waits = <<>>
  /\ probes = 0 /\ attempted = <<>> /\ fstate = <<>> /\ skipped = {}
  /\ upfront = "none" /\ responses = <<>> /\ classify_result = <<>>
  /\ design = NoDesign /\ img = NoImage /\ exitCode = -1
  /\ output = {}
  /\ TextIdle

\* use_cases.py 128-136 and cli.py 121-122: execute adds success and the
\* stats text and returns; the command prints _display_results and ends
Display ==
  /\ pc = "summary"
  /\ success' = <<SuccessFlag(results)>>
  /\ stats' = get_categorization_stats(results)
  /\ shown' = display_results(results)
  /\ exitCode' = 0
  /\ pc' = "displayed"
  /\ UNCHANGED <<entries, case_sensitive, pes_files, probe, checkenv>>
  /\ UNCHANGED <<files, scanned, start_after, results, index, temp_images,
                 disk, attempt, waits, probes, attempted, fstate, skipped,
                 upfront, responses, classify_result, design, img,
                 output>>
  /\ UNCHANGED textvars

NextSummary == Display

SpecSummary == InitSummary /\ [][NextSummary]_vars

(* ------------------ the check command: one probe ---------------------- *)
InitCheck ==
  /\ pc = "check"
  /\ checkenv \in {CheckEnv(k, m, r) :
                     k \in BOOLEAN, m \in SUBSET Dependencies, r \in ProbeOutcomes}
  /\ probe = NoProbe
  /\ entries = {} /\ case_sensitive = TRUE /\ pes_files = <<>>
  /\ shown = NoLines /\ stats = NoLines
  /\ BatchIdle
  /\ TextIdle

\* cli.py 137-191: the check command; the connection is tested only when
\* the key is configured, and any shortcoming ends the command with status 1
Check ==
  /\ pc = "check"
  /\ probe' = IF checkenv.key
                THEN [request |-> checkenv.request,
                      answer |-> is_available(checkenv.request)]
                ELSE NoProbe
  /\ exitCode' = IF checkenv.key /\ checkenv.missing = {} /\ probe'.answer
                   THEN 0 ELSE 1
  /\ pc' = "checked"
  /\ UNCHANGED <<entries, case_sensitive, pes_files, shown, stats, checkenv>>
  /\ UNCHANGED <<files, scanned, start_after, results, success, index,
                 temp_images, disk, attempt, waits, probes, attempted, fstate,
                 skipped, upfront, responses, classify_result, design, img,
                 output>>
  /\ UNCHANGED textvars

NextCheck == Check

SpecCheck == InitCheck /\ [][NextCheck]_vars

TypeOK ==
  /\ pc \in InBatch \cup {"returned", "done", "interrupted", "convert", "converted",
                         "normalize", "normalized", "renormalized", "constructed",
                         "map", "mapped", "folder_normalized", "scan", "scanned",
                         "summary", "displayed", "check", "checked"}
  /\ index \in 0 .. MaxFiles + 1
  /\ attempt \in 0 .. max_retries
  /\ probes \in 0 .. MaxFiles + 1

(* ============================ properties ============================== *)
\* the service method has returned to the use case
Returned == pc \in {"returned", "done"}

\* ordinals above the resume offset (all of them when there is none)
Above == {i \in 1 .. Len(files) : start_after = <<>> \/ i > start_after[1]}

InFlight(i) == fstate[i] \in {"Rendering", "Classifying", "Placing"}
Terminal(i) == fstate[i] \in {"RenderFailed", "ClassifyFailed", "Placed", "PlaceFailed"}
FailedOrdinals == {i \in DOMAIN fstate :
                     fstate[i] \in {"RenderFailed", "ClassifyFailed", "PlaceFailed"}}

\* C1 (as claimed): whatever the backend does while a rendered file is being
\* classified, the file gets a category and goes on to placement; the failed
\* counter counts render and placement failures only.
C1_ClassificationNeverFailsFile ==
  /\ \A i \in DOMAIN fstate : fstate[i] # "ClassifyFailed"
  /\ results.failed_files =
       Cardinality({i \in DOMAIN fstate : fstate[i] \in {"RenderFailed", "PlaceFailed"}})

\* C2 (as claimed): when the batch returns after a scan that found files, the
\* errors list has exactly one entry per failed file, in processing order,
\* each naming its file; so len(errors) = failed_files.
C2_OneErrorPerFailedFile ==
  (Returned /\ files # <<>>) =>
     /\ Len(results.errors) = results.failed_files
     /\ Len(results.errors) = Cardinality(FailedOrdinals)
     /\ \A k \in 1 .. Len(results.errors) :
          \E i \in FailedOrdinals :
             /\ results.errors[k].file = <<files[i].name>>
             /\ Cardinality({j \in FailedOrdinals : j <= i}) = k

\* C3: every file above the resume offset is attempted exactly once, in scan
\* order; at most one file is in flight, and it is started only when every
\* file attempted before it has reached a terminal state; when the batch
\* returns, every file above the offset has been attempted and is terminal,
\* whatever failed on the way.
C3_EveryFileOnceInOrder ==
  /\ \A j, k \in 1 .. Len(attempted) : j < k => attempted[j] < attempted[k]
  /\ Range(attempted) \subseteq Above
  /\ \A i \in DOMAIN fstate :
       InFlight(i) =>
          /\ Len(attempted) > 0 /\ i = attempted[Len(attempted)]
          /\ \A j \in Range(attempted) \ {i} : Terminal(j)
          /\ \A j \in Above : j > i => fstate[j] = "Discovered"
  /\ Returned =>
       /\ Range(attempted) = Above
       /\ \A i \in Above : Terminal(i)

\* C3 witness: a batch of three files with offset 1 has returned; the second
\* file failed to render, the third was still attempted and placed.
C3_Witness ==
  /\ pc = "done" /\ Len(files) = 3 /\ start_after = <<1>>
  /\ fstate[2] = "RenderFailed" /\ fstate[3] = "Placed"
  /\ attempted = <<2, 3>>

\* C4: when the batch's own availability check says unavailable, the batch
\* has returned without a scan: no file record, no attempt, no preview, all
\* counters 0, the errors list is the unavailability message alone, and the
\* success flag, once set, is false.
C4_UnavailableAbortsBeforeAnyFile ==
  upfront = "unavailable" =>
     /\ Returned
     /\ files = <<>> /\ fstate = <<>> /\ attempted = <<>> /\ skipped = {}
     /\ disk = {} /\ temp_images = <<>>
     /\ probes = 1 /\ responses = <<>>
     /\ results.total_files = 0
     /\ results.processed_files = 0
     /\ results.failed_files = 0
     /\ results.categories_found = {}
     /\ results.errors = <<ErrorEntry(<<>>, UnavailableMsg)>>
     /\ pc = "done" => success = <<FALSE>>

\* C4 witness: the directory holds two designs, the backend was unavailable,
\* the command has ended.
C4_Witness ==
  /\ upfront = "unavailable" /\ pc = "done" /\ Len(scanned) = 2

\* C5 (as claimed): one availability probe per batch, issued before the
\* first file; none while files are being processed.
C5_ProbeIssuedOnce ==
  /\ probes <= 1
  /\ attempted # <<>> => probes = 1

\* C6 (as claimed): with resume offset N exactly the first N files are
\* skipped: they are never attempted, they are in neither counter, and the
\* recorded skipped count is the number of files actually skipped.
C6_SkippedCountIsFilesSkipped ==
  (Returned /\ files # <<>> /\ start_after # <<>>) =>
     /\ skipped = {i \in 1 .. Len(files) : i <= start_after[1]}
     /\ skipped \cap Range(attempted) = {}
     /\ \A i \in skipped : fstate[i] = "Skipped"
     /\ results.processed_files + results.failed_files <= Len(files) - Cardinality(skipped)
     /\ results.skipped_files = <<Cardinality(skipped)>>

C8_AtMostOnePreview ==
  /\ Cardinality(disk) <= 1
  /\ pc = "render" => disk = {}

\* C9 (as claimed): when an interrupt ends the run, every preview created so
\* far has been cleaned up.
C9_InterruptCleansPreviews ==
  pc = "interrupted" => (disk = {} /\ temp_images = <<>>)

\* C10: a classify call issues at most max_retries requests, and none after
\* a request that yielded a usable response (a text that is not empty after
\* cleanup): while the call is still in its loop every response so far was a
\* failure, and only the last response of a call can be a usable one.
C10_AtMostMaxRetriesRequests ==
  /\ requests <= 3
  /\ requests <= max_retries
  /\ \A k \in 1 .. Len(responses) :
        (k < Len(responses) \/ pc = "classify") => responses[k] \in {"error", "empty"}

\* C10 witness: two failures, then a usable response on the third and last
\* permitted request; the call has returned.
C10_Witness ==
  /\ pc = "place"
  /\ responses = <<"error", "empty", "flowers">>
  /\ files[index].category = <<"flowers">>

\* every outcome of the current classify call so far was a failed attempt
AllAttemptsFailed == \A k \in 1 .. Len(responses) : responses[k] \in {"error", "empty"}

\* C11: within one classify call the k-th failed attempt is followed by a
\* wait of 2*k seconds when another attempt follows and by no wait when it
\* was the last one: while the call is in its loop there is one wait per
\* failed attempt, when it has returned there is one wait less than
\* requests; with the ceiling of 3 the waits are 2 then 4, 6 at most in all.
C11_LinearBackoff ==
  /\ \A k \in 1 .. Len(waits) : waits[k] = 2 * k
  /\ waits \in {<<>>, <<2>>, <<2, 4>>}
  /\ pc = "classify" => Len(waits) = Len(responses)
  /\ (pc = "place" /\ responses # <<>>) => Len(waits) = Len(responses) - 1

\* C11 witness: three failed attempts, waits of 2 and 4 between them and
\* none after the third; the call has returned.
C11_Witness ==
  /\ pc = "place" /\ Len(responses) = 3 /\ AllAttemptsFailed
  /\ waits = <<2, 4>>

\* C12: when every attempt of a classify call has failed (a request error
\* or a text that is empty after cleanup), the call returns the category
\* "other" to the service, after max_retries requests, and the file goes on
\* to placement with that category instead of failing.
C12_ExhaustedReturnsOther ==
  (pc = "place" /\ responses # <<>> /\ AllAttemptsFailed) =>
     /\ classify_result = <<"Category", "other">>
     /\ Len(responses) = max_retries
     /\ files[index].category = <<"other">>
     /\ fstate[index] = "Placing"

\* C12 witness: the last of three responses was empty after cleanup.
C12_Witness ==
  /\ pc = "place" /\ responses = <<"error", "error", "empty">>
  /\ classify_result = <<"Category", "other">>

\* C13 (as claimed): when the image is unreadable (missing or failing to
\* read) the classify call returns the category "other" without a request.
C13_UnreadableReturnsOther ==
  (pc = "place" /\ responses = <<>>) => classify_result = <<"Category", "other">>

\* C14: classification positions are reached only for a file whose render
\* produced an image and set the preview path; placement only for a file
\* with a category; a file whose render failed, like one not yet rendered,
\* has neither category nor preview path.
C14_PerFileStateMachine ==
  /\ pc \in {"classify_probe", "classify"} =>
        /\ fstate[index] = "Classifying"
        /\ design.file = index /\ img.ok
        /\ files[index].jpg_path # <<>>
        /\ files[index].category = <<>>
  /\ pc = "place" =>
        /\ fstate[index] = "Placing"
        /\ files[index].category # <<>>
        /\ files[index].jpg_path # <<>>
  /\ \A i \in DOMAIN fstate :
        /\ fstate[i] \in {"Placed", "PlaceFailed"} =>
              (files[i].category # <<>> /\ files[i].jpg_path # <<>>)
        /\ fstate[i] \in {"Discovered", "Skipped", "Rendering", "RenderFailed"} =>
              (files[i].category = <<>> /\ files[i].jpg_path = <<>>)

\* C14 witness: the first file failed to render and has no category and no
\* preview path, the second went through to Placed with its category.
C14_Witness ==
  /\ pc = "done" /\ Len(files) = 2
  /\ fstate[1] = "RenderFailed" /\ files[1].category = <<>> /\ files[1].jpg_path = <<>>
  /\ fstate[2] = "Placed" /\ files[2].category = <<"flowers">>

\* no stitch of the list carries a coordinate pair
ZeroDrawable(st) == \A k \in 1 .. Len(st) : Len(st[k]) < 2

\* C15: a render step on a readable pattern without any coordinate pair
\* produces no image and leaves the scratch directory as it was; the batch
\* counts the file as failed (not as processed) and is back at the loop, on
\* the next file, with the process still running.
C15_NoGeometryFailsFile ==
  [][(pc = "render" /\ pc' # "interrupted"
        /\ design'.readable /\ ZeroDrawable(design'.stitches)) =>
       /\ img' = [ok |-> FALSE]
       /\ disk' = disk
       /\ results'.failed_files = results.failed_files + 1
       /\ results'.processed_files = results.processed_files
       /\ fstate'[index] = "RenderFailed"
       /\ pc' = "loop" /\ index' = index + 1
       /\ exitCode' = -1]_vars

\* C15 witness: the state right after the failed render of a list of two
\* stitches without a coordinate pair, the first file of the batch.
C15_Witness ==
  /\ pc = "loop" /\ design.file = 1 /\ design.readable
  /\ Len(design.stitches) = 2 /\ ZeroDrawable(design.stitches)
  /\ fstate[1] = "RenderFailed" /\ disk = {}

\* width and height of the pattern of a stitch list that has geometry
PatternWidth(st) == MaxOf(x_coords(st)) - MinOf(x_coords(st))
PatternHeight(st) == MaxOf(y_coords(st)) - MinOf(y_coords(st))

\* C16: for every stitch list that renders, the scale is at most 1 and the
\* image measures the scaled pattern (truncated) plus twice the padding.
C16_ScaleAndSize ==
  (pc = "converted" /\ img.ok) =>
     /\ img.scale[2] > 0 /\ img.scale[1] > 0
     /\ img.scale[1] <= img.scale[2]
     /\ img.width = (PatternWidth(design.stitches) * img.scale[1]) \div img.scale[2] + 100
     /\ img.height = (PatternHeight(design.stitches) * img.scale[1]) \div img.scale[2] + 100
     /\ img.width <= PatternWidth(design.stitches) + 100
     /\ img.height <= PatternHeight(design.stitches) + 100

\* C16 witness: a pattern 1390 wide and 15 high is scaled by 700/1390 to an
\* image of 800 by 107.
C16_Witness ==
  /\ pc = "converted" /\ img.ok
  /\ PatternWidth(design.stitches) = 1390 /\ PatternHeight(design.stitches) = 15
  /\ img.width = 800 /\ img.height = 107

\* ordinals of the trim and stop commands, and of the draw-segments
IsCommand(st, k, cs) ==
  Len(st[k]) >= 2 /\ (IF Len(st[k]) > 2 THEN st[k][3] ELSE "STITCH") \in cs
TrimsOf(st) == {k \in 1 .. Len(st) : IsCommand(st, k, {"TRIM", "STOP"})}
DrawsOf(st) == {k \in 1 .. Len(st) : IsCommand(st, k, {"STITCH"})}

\* no line runs from a point at or before a trim/stop to a point after it
NoLineAcrossTrim ==
  \A t \in TrimsOf(design.stitches) :
     \A n \in 1 .. Len(img.lines) : ~(img.lines[n].a <= t /\ t < img.lines[n].b)

\* C17 (as claimed): the first draw-segment after a trim/stop draws no line,
\* and no line connects a point after the trim/stop to one before it.
C17_FirstDrawAfterTrimDrawsNothing ==
  (pc = "converted" /\ img.ok) =>
     /\ NoLineAcrossTrim
     /\ \A t \in TrimsOf(design.stitches) :
          \A d \in DrawsOf(design.stitches) :
             (d > t /\ \A e \in DrawsOf(design.stitches) : e > t => d <= e)
                => \A n \in 1 .. Len(img.lines) : img.lines[n].b # d

\* C17 (amended): the draw-segment that comes directly after a trim/stop,
\* with no command carrying a point between them, draws no line, and no
\* line connects a point after the trim/stop to one at or before it.
C17_TrimBreaksContinuity ==
  (pc = "converted" /\ img.ok) =>
     /\ NoLineAcrossTrim
     /\ \A t \in TrimsOf(design.stitches) :
          \A d \in DrawsOf(design.stitches) :
             (d > t /\ \A e \in (t + 1) .. (d - 1) : Len(design.stitches[e]) < 2)
                => \A n \in 1 .. Len(img.lines) : img.lines[n].b # d

\* C17 witness: stitch, trim, stitch: nothing is drawn at all.
C17_Witness ==
  /\ pc = "converted" /\ img.ok /\ img.lines = <<>>
  /\ design.stitches = <<(<<0, 0, "STITCH">>), (<<1400, 0, "TRIM">>), (<<10, 15, "STITCH">>)>>

\* C18 (as claimed): the n-th color-change selects the n-th next entry of
\* the rotating palette, counted in color-change events.
C18_ColorFollowsChangeCount ==
  (pc = "converted" /\ img.ok) =>
     \A n \in 1 .. Len(img.changes) : img.changes[n] = colors[(n % 6) + 1]

\* C19: whenever from_ai_response built a Category from a raw text, the same
\* call on that Category's name builds a Category too, with the same name.
C19_NormalizationIdempotent ==
  /\ pc = "renormalized" => (built.ok /\ rebuilt.ok /\ rebuilt.name = built.name)
  /\ (pc = "normalized" /\ built.ok) => from_ai_response(built.name, conf).ok

\* C19 witness: " B." gave "b", and "b" gave "b" again.
C19_Witness ==
  /\ pc = "renormalized"
  /\ text = <<" ", "B", ".">>
  /\ built.name = <<"b">> /\ rebuilt.name = <<"b">>

\* the keys of the English table
KnownIdentifiers ==
  {<<"t", "e", "d", "d", "y", "_", "b", "e", "a", "r", "s">>,
   <<"a", "n", "g", "e", "l", "s">>, <<"n", "a", "m", "e", "s">>,
   <<"c", "a", "r", "s">>, <<"f", "l", "o", "w", "e", "r", "s">>,
   <<"a", "n", "i", "m", "a", "l", "s">>, <<"h", "e", "a", "r", "t", "s">>,
   <<"s", "t", "a", "r", "s">>,
   <<"b", "u", "t", "t", "e", "r", "f", "l", "i", "e", "s">>,
   <<"b", "a", "b", "i", "e", "s">>,
   <<"c", "h", "r", "i", "s", "t", "m", "a", "s">>,
   <<"e", "a", "s", "t", "e", "r">>, <<"s", "p", "o", "r", "t", "s">>,
   <<"f", "o", "o", "d">>, <<"n", "a", "t", "u", "r", "e">>,
   <<"o", "t", "h", "e", "r">>}

\* the entry of a known identifier in the table of a supported language
EntryOf(table, key) ==
  table[CHOOSE i \in 1 .. Len(table) : table[i][1] = key][2]

\* C20: after the lookup, a known identifier in a supported language has the
\* folder name of that language's table ("flowers" in "pt-BR": "flores"); in
\* any other language it has the one of the English table, which is the
\* identifier; an identifier the table does not have is its own folder name.
C20_FolderNameMapping ==
  pc = "mapped" =>
     /\ (identifier \in KnownIdentifiers /\ lang \in {"en", "pt-BR"}) =>
           folder = EntryOf(CATEGORY_MAPPINGS[lang], identifier)
     /\ (identifier = <<"f", "l", "o", "w", "e", "r", "s">> /\ lang = "pt-BR") =>
           folder = <<"f", "l", "o", "r", "e", "s">>
     /\ (identifier \in KnownIdentifiers /\ lang \notin {"en", "pt-BR"}) =>
           (folder = EntryOf(CATEGORY_MAPPINGS["en"], identifier) /\ folder = identifier)
     /\ identifier \notin KnownIdentifiers => folder = identifier

\* C20 witness: "flowers" asked for in "fr" came back as "flowers".
C20_Witness ==
  /\ pc = "mapped" /\ lang = "fr"
  /\ identifier = <<"f", "l", "o", "w", "e", "r", "s">>
  /\ folder = <<"f", "l", "o", "w", "e", "r", "s">>

\* C21 (as claimed): every category a file holds at placement or later is
\* one of the sixteen supported identifiers.
C21_CategoryIsSupported ==
  \A i \in 1 .. Len(files) :
     files[i].category # <<>> => files[i].category[1] \in get_supported_categories

\* C24 (as claimed): a batch that ended because the backend was unavailable
\* at its own availability check leaves a message and a non-zero exit code.
C24_PreconditionFailureExitsNonZero ==
  (pc = "done" /\ upfront = "unavailable") =>
     (results.errors # <<>> /\ exitCode # 0)

SkippedCount == IF results.skipped_files = <<>> THEN 0 ELSE results.skipped_files[1]

\* C26 (as claimed): when a batch has completed without a batch-level
\* error, processed + failed + skipped = total.
C26_CountersAddUp ==
  (pc = "done" /\ upfront = "available" /\ results.errors = <<>>) =>
     results.processed_files + results.failed_files + SkippedCount
        = results.total_files

\* identifiers of the files placed so far
PlacedCategories ==
  {files[i].category[1] : i \in {j \in 1 .. Len(files) : fstate[j] = "Placed"}}

\* C30: at every point of a batch categories_found is the set of the
\* identifiers of the files placed so far; it is non-empty exactly when
\* processed_files > 0 and has at most processed_files members.
C30_CategoriesFoundArePlaced ==
  /\ results.categories_found = PlacedCategories
  /\ (results.categories_found # {}) <=> (results.processed_files > 0)
  /\ Cardinality(results.categories_found) <= results.processed_files
  /\ results.processed_files =
        Cardinality({j \in 1 .. Len(files) : fstate[j] = "Placed"})

\* C30 witness: three files, one failed to render, one failed at placement,
\* one was placed under "flowers": the set holds "flowers" alone.
C30_Witness ==
  /\ Len(files) = 3 /\ pc = "done"
  /\ fstate[1] = "RenderFailed" /\ fstate[2] = "PlaceFailed" /\ fstate[3] = "Placed"
  /\ files[2].category = <<"dogs">>
  /\ results.categories_found = {"flowers"} /\ results.processed_files = 1

\* C27 (as claimed): no rendered image is wider or higher than image_size.
C27_ImageWithinTarget ==
  (pc = "converted" /\ img.ok) =>
     (img.width <= image_size[1] /\ img.height <= image_size[2])

\* ordinal of the command that left the anchor a draw-segment at ordinal d
\* finds, 0 when it finds none: the last command before d that carries a
\* point, unless that is a trim or stop
AnchorBefore(st, d) ==
  LET before == {k \in 1 .. (d - 1) : Len(st[k]) >= 2}
      p == IF before = {} THEN 0 ELSE MaxOf(before)
  IN  IF p = 0 \/ IsCommand(st, p, {"TRIM", "STOP"}) THEN 0 ELSE p

\* the lines drawn by the command at ordinal d
LinesTo(d) == {n \in 1 .. Len(img.lines) : img.lines[n].b = d}

\* the transformed point of the command at ordinal k
PointOf(st, k) ==
  <<adjusted(st[k][1], MinOf(x_coords(st)), img.scale),
    adjusted(st[k][2], MinOf(y_coords(st)), img.scale)>>

\* only draw-segments draw; one draws exactly when it finds an anchor, and
\* then one line from the anchor's point to its own
AnchorRule ==
  /\ \A n \in 1 .. Len(img.lines) : img.lines[n].b \in DrawsOf(design.stitches)
  /\ \A d \in DrawsOf(design.stitches) :
       IF AnchorBefore(design.stitches, d) = 0
         THEN LinesTo(d) = {}
         ELSE /\ Cardinality(LinesTo(d)) = 1
              /\ \A n \in LinesTo(d) :
                   /\ img.lines[n].a = AnchorBefore(design.stitches, d)
                   /\ img.lines[n].from = PointOf(design.stitches, img.lines[n].a)
                   /\ img.lines[n].to = PointOf(design.stitches, d)

\* C28 (as claimed): the anchor rule, and the first draw-segment of a
\* sequence draws nothing.
C28_FirstDrawSegmentDrawsNothing ==
  (pc = "converted" /\ img.ok) =>
     /\ AnchorRule
     /\ \A d \in DrawsOf(design.stitches) :
          (\A e \in DrawsOf(design.stitches) : d <= e) => LinesTo(d) = {}

\* C28 (amended): the anchor rule, and a draw-segment with no command
\* carrying a point before it draws nothing.
C28_PenAnchorRule ==
  (pc = "converted" /\ img.ok) =>
     /\ AnchorRule
     /\ \A d \in DrawsOf(design.stitches) :
          (\A e \in 1 .. (d - 1) : Len(design.stitches[e]) < 2) => LinesTo(d) = {}

\* C28 witness: stitch, move, stitch: the first stitch draws nothing and the
\* second connects from the move's destination alone.
C28_Witness ==
  /\ pc = "converted" /\ img.ok
  /\ design.stitches = <<(<<0, 0, "STITCH">>), (<<1400, 0, "JUMP">>), (<<10, 15, "STITCH">>)>>
  /\ Len(img.lines) = 1 /\ img.lines[1].a = 2 /\ img.lines[1].b = 3

\* C29: every command coordinate of a rendered sequence, and so every line
\* endpoint, is transformed to a point at least padding away from each edge
\* of the image.
C29_PointsInsideCanvas ==
  (pc = "converted" /\ img.ok) =>
     /\ \A k \in 1 .. Len(design.stitches) :
          Len(design.stitches[k]) >= 2 =>
             /\ 50 <= PointOf(design.stitches, k)[1]
             /\ PointOf(design.stitches, k)[1] <= img.width - 50
             /\ 50 <= PointOf(design.stitches, k)[2]
             /\ PointOf(design.stitches, k)[2] <= img.height - 50
     /\ \A n \in 1 .. Len(img.lines) :
          \A q \in {img.lines[n].from, img.lines[n].to} :
             /\ 50 <= q[1] /\ q[1] <= img.width - 50
             /\ 50 <= q[2] /\ q[2] <= img.height - 50

\* C29 witness: in the scaled-down pattern 1390 by 15 the line ends on the
\* right edge of the padded area, at x = 750.
C29_Witness ==
  /\ pc = "converted" /\ img.ok /\ img.width = 800
  /\ Len(img.lines) = 1
  /\ img.lines[1].to[1] = 750 \/ img.lines[1].from[1] = 750

\* a canonical identifier: not empty, no whitespace at either end, no
\* upper-case letter, no space, none of the punctuation characters
Canonical(name) ==
  /\ name # <<>>
  /\ name[1] \notin {" ", "\t", "\n", "\r"}
  /\ name[Len(name)] \notin {" ", "\t", "\n", "\r"}
  /\ \A i \in 1 .. Len(name) :
       /\ name[i] \notin Range(UpperCase)
       /\ name[i] # " "
       /\ name[i] \notin {".", ",", "!", "?", ";", ":", "\"", "(", ")", "[", "]", "{", "}"}

\* no character of the text is left once whitespace and, where the
\* punctuation is removed, punctuation are taken away
NothingLeft(s, dropped) == \A i \in 1 .. Len(s) : s[i] \in dropped

\* C22 (as claimed): a Category built by the constructor or by
\* from_ai_response has a canonical identifier and a confidence within
\* [0, 1]; building fails when the confidence is out of range or when the
\* identifier would be empty.
C22_CategoryIsCanonical ==
  pc \in {"normalized", "constructed"} =>
     /\ built.ok => (Canonical(built.name) /\ 0 <= built.confidence /\ built.confidence <= 100)
     /\ (conf < 0 \/ conf > 100) => ~built.ok
     /\ (pc = "constructed" /\ NothingLeft(text, Whitespace)) => ~built.ok
     /\ (pc = "normalized" /\ NothingLeft(text, Whitespace \cup Range(Punctuation)))
           => ~built.ok

\* C23: for a known identifier in a supported language the folder name is
\* not empty, and from_ai_response builds from it a Category of that very
\* name.
C23_FolderNameRoundTrip ==
  (pc = "folder_normalized" /\ identifier \in KnownIdentifiers
      /\ lang \in {"en", "pt-BR"}) =>
     (folder # <<>> /\ built.ok /\ built.name = folder)

\* C23 witness: "teddy_bears" in "en" is "teddy_bears" and stays so.
C23_Witness ==
  /\ pc = "folder_normalized" /\ lang = "en"
  /\ identifier = <<"t", "e", "d", "d", "y", "_", "b", "e", "a", "r", "s">>
  /\ folder = identifier /\ built.ok /\ built.name = folder

\* how many times an entry occurs in a list
Occurrences(x, list) == Cardinality({i \in 1 .. Len(list) : list[i] = x})

\* the design files of a directory: extension "pes" in any letter case
DesignFiles(dir) == {x \in dir : x.ext \in {"pes", "PES", "Pes"}}

\* C31 (as claimed): after the scan every design file of the directory is in
\* the returned list exactly once and nothing else is, so the list has as
\* many members as there are design files.
C31_EachDesignFileOnce ==
  pc = "scanned" =>
     /\ \A x \in entries :
          Occurrences(x, pes_files) = IF x \in DesignFiles(entries) THEN 1 ELSE 0
     /\ Len(pes_files) = Cardinality(DesignFiles(entries))

\* C36 (as claimed): the summary printed for n recorded errors lists the
\* first min(5, n) of them in order, and notes n - 5 more exactly when n > 5.
C36_FirstFiveErrorsShown ==
  pc = "displayed" =>
     LET n == Len(results.errors)
         m == IF n < 5 THEN n ELSE 5
     IN  /\ shown.errors = SubSeq(results.errors, 1, m)
         /\ shown.more = IF n > 5 THEN n - 5 ELSE 0

\* C34: the probe of the check command answers true when its request
\* returned and false for every kind of failure, and never anything else;
\* the command then ends with status 0 only after an answer of true.
C34_ProbeNeverRaises ==
  (pc = "checked" /\ checkenv.key) =>
     /\ probe.request = checkenv.request
     /\ probe.answer \in BOOLEAN
     /\ probe.answer <=> (checkenv.request = "ok")
     /\ checkenv.request \in {"auth_error", "network_error", "timeout"} =>
           (probe.answer = FALSE /\ exitCode = 1)

\* C34 witness: the request timed out, the probe answered false and the
\* command ended with status 1, every module being installed.
C34_Witness ==
  /\ pc = "checked" /\ checkenv.key /\ checkenv.missing = {}
  /\ checkenv.request = "timeout"
  /\ probe = [request |-> "timeout", answer |-> FALSE]
  /\ exitCode = 1

(* ------------------- previews and placed copies ----------------------- *)
\* the path the design of file i is copied to: file_system_repository.py 75
DestinationOf(i) == <<FolderOf(files[i].category[1]), files[i].name>>

\* C32 (as claimed): two distinct files of one batch that were taken up never
\* have the same preview path, two placed files never have the same
\* destination, and the copy of a placed file stays in the output directory:
\* no later file writes over it.
C32_NoSharedPreviewOrDestination ==
  /\ \A i, j \in Range(attempted) :
        i # j => create_temp_jpg_path(files[i].name)
                   # create_temp_jpg_path(files[j].name)
  /\ \A i, j \in DOMAIN fstate :
        (i # j /\ fstate[i] = "Placed" /\ fstate[j] = "Placed")
           => DestinationOf(i) # DestinationOf(j)
  /\ \A i \in DOMAIN fstate :
        fstate[i] = "Placed" =>
           \E e \in output : /\ e.from = i /\ e.kind = "pes"
                             /\ <<e.folder, e.name>> = DestinationOf(i)

\* C33 (as claimed): a file counted as failed has left neither its design
\* nor its preview in the output directory, and the destination of a file
\* counted as processed holds a design and a preview.
C33_PlacementAllOrNothing ==
  \A i \in DOMAIN fstate :
    /\ i \in FailedOrdinals => ~\E e \in output : e.from = i
    /\ fstate[i] = "Placed" =>
         \A kind \in {"pes", "jpg"} :
            \E e \in output : /\ e.kind = kind
                              /\ <<e.folder, e.name>> = DestinationOf(i)

(* --------------------------- termination ------------------------------ *)
\* the steps of a batch run that nothing interrupts
NextBatch ==
  \/ IsAvailableCheck
  \/ FindPesFiles
  \/ SkipFile
  \/ BeginFile
  \/ Render
  \/ BeginClassify
  \/ ClassifyAttempt
  \/ Place
  \/ FinishLoop
  \/ ExecuteReturn

\* every call of the backend, the renderer and the filesystem adapter
\* returns or raises, so the single thread of the batch always takes its
\* next step
SpecLive == Init /\ [][NextBatch]_vars /\ WF_vars(NextBatch)

\* no entry of the file list is taken up twice, and none is both skipped
\* and taken up
VisitedAtMostOnce ==
  /\ \A j, k \in 1 .. Len(attempted) : j # k => attempted[j] # attempted[k]
  /\ Range(attempted) \cap skipped = {}
  /\ Range(attempted) \cup skipped \subseteq 1 .. Len(files)

\* the classify call in progress has made at most max_retries requests and
\* at most max_retries - 1 waits
ClassifyBounded ==
  /\ attempt <= max_retries - 1
  /\ requests <= max_retries
  /\ Len(waits) <= max_retries - 1

\* C35: when every call returns or raises, the batch run ends with a result
\* handed to the command; on the way each entry of the file list is visited
\* at most once and each classify call makes at most max_retries requests
\* and max_retries - 1 backoff waits.
C35_BatchTerminates ==
  /\ <>(pc = "done" /\ success # <<>>)
  /\ [](VisitedAtMostOnce /\ ClassifyBounded)

\* C35 witness: a batch of three files has returned its result; the first
\* file failed to render, the second was placed, the third failed in
\* placement, each taken up once.
C35_Witness ==
  /\ pc = "done" /\ success = <<TRUE>>
  /\ Len(files) = 3 /\ attempted = <<1, 2, 3>>
  /\ fstate = <<"RenderFailed", "Placed", "PlaceFailed">>

====
